---- MODULE Spec2Model ----
\* State-machine model of the DCC protocol decoder (src/dcc/pd.py):
\* bit classification, preamble / byte framing and telegram parsing.
EXTENDS Integers, Sequences, FiniteSets, TLC

\* ---------------------------------------------------------------------
\* Decoder.decode's thresholds: int(float(opt) * 1e-6 * self.samplerate)
\* in IEEE-754 double arithmetic (53-bit significands, round to nearest,
\* ties to even). Naturals wider than 31 bits are sequences of 15-bit
\* limbs, least significant first.
\* ---------------------------------------------------------------------
Limb == 32768

\* drop the zero limbs at the most significant end
RECURSIVE Norm(_)
Norm(a) == IF a = <<>> THEN a
           ELSE IF a[Len(a)] = 0 THEN Norm(SubSeq(a, 1, Len(a) - 1)) ELSE a

RECURSIVE FromLimbs(_)
FromLimbs(a) == IF a = <<>> THEN 0 ELSE Head(a) + Limb * FromLimbs(Tail(a))

Hd0(a) == IF a = <<>> THEN 0 ELSE Head(a)
Tl0(a) == IF a = <<>> THEN <<>> ELSE Tail(a)

\* a + b + c
RECURSIVE AddL(_, _, _)
AddL(a, b, c) == IF a = <<>> /\ b = <<>> THEN (IF c = 0 THEN <<>> ELSE <<c>>)
                 ELSE LET t == Hd0(a) + Hd0(b) + c
                      IN <<t % Limb>> \o AddL(Tl0(a), Tl0(b), t \div Limb)

\* a * b + c for one limb b
RECURSIVE MulSmall(_, _, _)
MulSmall(a, b, c) == IF a = <<>> THEN (IF c = 0 THEN <<>> ELSE <<c>>)
                     ELSE LET t == Head(a) * b + c
                          IN <<t % Limb>> \o MulSmall(Tail(a), b, t \div Limb)

\* a * b
RECURSIVE MulL(_, _)
MulL(a, b) == IF b = <<>> THEN <<>>
              ELSE Norm(AddL(MulSmall(a, Head(b), 0), <<0>> \o MulL(a, Tail(b)), 0))

RECURSIVE BitLen(_)
BitLen(n) == IF n = 0 THEN 0 ELSE 1 + BitLen(n \div 2)

BitLenL(a) == LET t == Norm(a) IN IF t = <<>> THEN 0 ELSE 15 * (Len(t) - 1) + BitLen(t[Len(t)])

\* a div 2^s
ShiftR(a, s) ==
    LET k == s \div 15
        r == s % 15
        b == IF k >= Len(a) THEN <<>> ELSE SubSeq(a, k + 1, Len(a))
    IN Norm([i \in 1..Len(b) |->
              b[i] \div 2^r + (IF i < Len(b) THEN (b[i + 1] % 2^r) * 2^(15 - r) ELSE 0)])

\* a * 2^s
ShiftL(a, s) == Norm([i \in 1..(s \div 15) |-> 0] \o MulSmall(a, 2^(s % 15), 0))

\* long division by a divisor below 2^16, most significant limb first
RECURSIVE DivLoop(_, _, _, _, _)
DivLoop(a, i, d, q, r) ==
    IF i = 0 THEN [q |-> Norm(q), r |-> r]
    ELSE LET rem == r * Limb + a[i]
         IN DivLoop(a, i - 1, d, <<rem \div d>> \o q, rem % d)

DivSmall(a, d) == DivLoop(a, Len(a), d, <<>>, 0)

\* round a natural to 53 significant bits, ties to even: p ~ m * 2^s
Round53(p) ==
    LET L == BitLenL(p)
    IN IF L <= 53 THEN [m |-> Norm(p), s |-> 0]
       ELSE LET s == L - 53
                q == ShiftR(p, s)
                half == Hd0(ShiftR(p, s - 1)) % 2
                sticky == ShiftL(ShiftR(p, s - 1), s - 1) /= Norm(p)
                up == half = 1 /\ (sticky \/ Hd0(q) % 2 = 1)
            IN [m |-> IF up THEN AddL(q, <<>>, 1) ELSE q, s |-> s]

\* a double is [m |-> significand limbs, e |-> exponent]: value m * 2^e
IntToDouble(n) == [m |-> Norm(<<n % Limb, (n \div Limb) % Limb, n \div (Limb * Limb)>>), e |-> 0]

\* the literal 1e-6: nearest double to 1 / (2^6 * 15625)
Lit1em6 ==
    LET K == CHOOSE k \in 60..90 : BitLenL(DivSmall(ShiftL(<<1>>, k - 6), 15625).q) = 53
        dv == DivSmall(ShiftL(<<1>>, K - 6), 15625)
        up == 2 * dv.r > 15625
    IN [m |-> IF up THEN AddL(dv.q, <<>>, 1) ELSE dv.q, e |-> -K]

\* a * b in double arithmetic
FMul(a, b) == LET r == Round53(MulL(a.m, b.m)) IN [m |-> r.m, e |-> a.e + b.e + r.s]

\* int(x) of a non-negative double: truncation toward zero
Trunc(x) == IF x.e >= 0 THEN FromLimbs(x.m) * 2^x.e ELSE FromLimbs(ShiftR(x.m, -x.e))

\* int(float(opt[...]) * 1e-6 * self.samplerate)
Threshold(us, r) == Trunc(FMul(FMul(IntToDouble(us), Lit1em6), IntToDouble(r)))

\* ---------------------------------------------------------------------
\* Timing thresholds as Decoder.decode computes them at a sample rate of
\* 1 MHz with the default options (10, 100, 130, 190, 250 us): the values
\* of Threshold(10, SampleRate), ..., Threshold(250, SampleRate), which
\* ThrSpec computes, written as literals for the frame-level specs.
\* ---------------------------------------------------------------------
SampleRate == 1000000

JitterEdge == 10
OneMin == 99
OneMax == 130
ZeroMin == 189
ZeroMax == 250

\* Python None (self.last_bit = None)
None == -1
FIND == "FIND_PREAMBLE"
DATA == "DATA"

\* ---------------------------------------------------------------------
\* Python bitwise operators on non-negative integers.
\* ---------------------------------------------------------------------
RECURSIVE BitAnd(_, _)
BitAnd(a, b) == IF a = 0 \/ b = 0 THEN 0
                ELSE 2 * BitAnd(a \div 2, b \div 2) + (a % 2) * (b % 2)

RECURSIVE BitOr(_, _)
BitOr(a, b) == IF a = 0 THEN b ELSE IF b = 0 THEN a
               ELSE 2 * BitOr(a \div 2, b \div 2)
                    + (IF a % 2 = 1 \/ b % 2 = 1 THEN 1 ELSE 0)

RECURSIVE BitXor(_, _)
BitXor(a, b) == IF a = 0 THEN b ELSE IF b = 0 THEN a
                ELSE 2 * BitXor(a \div 2, b \div 2) + ((a + b) % 2)

\* Python's (x & 0xFF) for any integer x, negative ones included.
Low8(x) == ((x % 256) + 256) % 256

\* Python's ~x
BitNot(x) == -x - 1

\* ---------------------------------------------------------------------
\* Annotation records (rows 2: type, 3: address, 4: function/command).
\* ---------------------------------------------------------------------
Ann(row, kind, v) == [row |-> row, kind |-> kind, v |-> v]

VARIABLES
    state,          \* self.state
    preamble_count, \* self.preamble_count
    data_bit_count, \* self.data_bit_count
    databyte,       \* self.databyte
    data,           \* self.data
    last_bit,       \* self.last_bit
    bit,            \* value handle_getting_bit returned to its caller
    ev,             \* annotations (rows 2..4) put by the last step
    log,            \* all annotations (rows 2..4) put so far
    sid,            \* which input stream is fed
    inp,            \* remaining bit-cell durations of the input stream
    glitches,       \* invalid bit cells injected so far
    dur,            \* duration of the last bit cell read
    ones,           \* consecutive 1 bits read in FIND_PREAMBLE
    phase,          \* "noise": arbitrary stream; "clean": repeated telegram
    tele,           \* the telegram fed in the clean phase
    dpc,            \* position in decode / handle_bit_read, or command applied
    rate,           \* self.samplerate
    jitter,         \* self.jitter_edge_samplenum
    samplenum,      \* self.samplenum
    first,          \* first_edge_samplenum
    second,         \* second_edge_samplenum
    dif1,           \* dif1_samplenum
    dif2,           \* dif2_samplenum
    bstart,         \* self.bit_start_samplenum
    bend,           \* self.bit_end_samplenum
    prevend,        \* bit_end_samplenum of the previously reported bit
    edges,          \* edges waited for so far
    nput,           \* period annotations put so far
    nbits           \* bits reported by handle_bit_read so far

frame_vars == <<state, preamble_count, data_bit_count, databyte, data, last_bit, bit,
                ev, log, sid, inp, glitches, dur, ones, phase, tele>>

edge_vars == <<rate, jitter, samplenum, first, second, dif1, dif2, bstart, bend,
               prevend, edges, nput, nbits>>

vars == <<state, preamble_count, data_bit_count, databyte, data, last_bit, bit,
          ev, log, sid, inp, glitches, dur, ones, phase, tele, dpc,
          rate, jitter, samplenum, first, second, dif1, dif2, bstart, bend,
          prevend, edges, nput, nbits>>

\* ---------------------------------------------------------------------
\* Decoder.handle_getting_bit: classification of a bit-cell duration.
\* BitClass is the value stored in self.last_bit, GetBitRet the value the
\* method returns, GetBitState the state it leaves behind.
\* ---------------------------------------------------------------------
BitClassMut(d) == IF d \in ZeroMin..ZeroMax THEN 0
                  ELSE IF d \in OneMin..OneMax THEN 1
                  ELSE None

BitClass(d) == IF d \in ZeroMin..(ZeroMax - 1) THEN 0
               ELSE IF d \in OneMin..(OneMax - 1) THEN 1
               ELSE None

GetBitRet(d) == IF BitClass(d) = None THEN 0 ELSE BitClass(d)

GetBitState(d, st) == IF BitClass(d) = None THEN FIND ELSE st

\* ---------------------------------------------------------------------
\* Decoder.handle_single_command_byte: [ev |-> annotations, st |-> state]
\* ---------------------------------------------------------------------
FuncIf(cond, name) == IF cond THEN <<name>> ELSE <<>>

\* 28 speed steps: <<speed, dir>> = <<databyte & 0x1F, (databyte & 0x20) >> 5>>
Speed28Mut(b) == <<BitAnd(b, 31), BitAnd(b, 64) \div 64>>
Speed28(b) == <<BitAnd(b, 31), BitAnd(b, 32) \div 32>>

SingleCommand(b, st) ==
    IF BitAnd(b, 192) = 64 THEN
        [ev |-> <<Ann(4, "SPEED", Speed28(b))>>, st |-> st]
    ELSE IF BitAnd(b, 224) = 128 THEN
        [ev |-> <<Ann(4, "FUNCS",
                      FuncIf(BitAnd(b, 16) = 16, "FL")
                      \o FuncIf(BitAnd(b, 1) = 1, "F1")
                      \o FuncIf(BitAnd(b, 2) = 2, "F2")
                      \o FuncIf(BitAnd(b, 3) = 3, "F3")
                      \o FuncIf(BitAnd(b, 4) = 4, "F4"))>>,
         st |-> st]
    ELSE IF BitAnd(b, 240) = 176 THEN
        [ev |-> <<Ann(4, "FUNCS",
                      FuncIf(BitAnd(b, 1) = 1, "F5")
                      \o FuncIf(BitAnd(b, 2) = 2, "F6")
                      \o FuncIf(BitAnd(b, 3) = 3, "F7")
                      \o FuncIf(BitAnd(b, 4) = 4, "F8"))>>,
         st |-> st]
    ELSE IF BitAnd(b, 240) = 160 THEN
        [ev |-> <<Ann(4, "FUNCS",
                      FuncIf(BitAnd(b, 1) = 1, "F9")
                      \o FuncIf(BitAnd(b, 2) = 2, "F10")
                      \o FuncIf(BitAnd(b, 3) = 3, "F11")
                      \o FuncIf(BitAnd(b, 4) = 4, "F12"))>>,
         st |-> st]
    ELSE [ev |-> <<Ann(4, "UNDEFINED CMD", <<>>)>>, st |-> FIND]

\* ---------------------------------------------------------------------
\* Decoder.handle_two_command_byte. Python parses cmdbyte2 & 0x7F - 1 as
\* cmdbyte2 & (0x7F - 1).
\* ---------------------------------------------------------------------
TwoCommand(c1, c2, st) ==
    IF BitAnd(c1, 224) = 32 THEN
        IF BitAnd(c1, 31) = 31 THEN
            [ev |-> <<Ann(4, "SPEED", <<BitAnd(c2, 127 - 1), BitAnd(c2, 128) \div 128>>)>>,
             st |-> st]
        ELSE [ev |-> <<Ann(4, "NOT SUPPORTED", <<>>)>>, st |-> st]
    ELSE IF c1 = 222 THEN
        [ev |-> <<Ann(4, "FUNCS",
                      FuncIf(BitAnd(c2, 1) = 1, "F13")
                      \o FuncIf(BitAnd(c2, 2) = 2, "F14")
                      \o FuncIf(BitAnd(c2, 4) = 4, "F15")
                      \o FuncIf(BitAnd(c2, 8) = 4, "F16")
                      \o FuncIf(BitAnd(c2, 16) = 16, "F17")
                      \o FuncIf(BitAnd(c2, 32) = 32, "F18")
                      \o FuncIf(BitAnd(c2, 64) = 64, "F19")
                      \o FuncIf(BitAnd(c2, 128) = 128, "F20"))>>,
         st |-> st]
    ELSE IF c1 = 223 THEN
        [ev |-> <<Ann(4, "FUNCS",
                      FuncIf(BitAnd(c2, 1) = 1, "F21")
                      \o FuncIf(BitAnd(c2, 2) = 2, "F22")
                      \o FuncIf(BitAnd(c2, 4) = 4, "F23")
                      \o FuncIf(BitAnd(c2, 8) = 4, "F24")
                      \o FuncIf(BitAnd(c2, 16) = 16, "F25")
                      \o FuncIf(BitAnd(c2, 32) = 32, "F26")
                      \o FuncIf(BitAnd(c2, 64) = 64, "F27")
                      \o FuncIf(BitAnd(c2, 128) = 128, "F28"))>>,
         st |-> st]
    ELSE [ev |-> <<Ann(4, "UNDEFINED CMD", <<>>)>>, st |-> FIND]

\* Accessory address of Decoder.handle_telegram:
\* ((data[0] & 0x3F) | (~(data[1] | 0x8F)) << 1) & 0xFF
AccAddr(b0, b1) == BitOr(BitAnd(b0, 63), Low8(2 * BitNot(BitOr(b1, 143))))

\* ---------------------------------------------------------------------
\* Decoder.handle_telegram on buffer d, entered in state st with preamble
\* count pc: [ev |-> annotations, st |-> state, pc |-> preamble count]
\* ---------------------------------------------------------------------
Xor3Mut(d) == BitOr(d[1], d[2])
Xor3(d) == BitXor(d[1], d[2])
Xor4Mut(d) == BitXor(d[1], d[2])
Xor4(d) == BitXor(BitXor(d[1], d[2]), d[3])
Xor5Mut(d) == BitXor(BitXor(d[1], d[2]), d[3])
Xor5(d) == BitXor(BitXor(BitXor(d[1], d[2]), d[3]), d[4])

KeepMut(st, pc) == [ev |-> <<>>, st |-> FIND, pc |-> pc]
Keep(st, pc) == [ev |-> <<>>, st |-> st, pc |-> pc]

\* "we have a preamble already": preamble_count = 8, state FIND_PREAMBLE
ResyncMut(st, pc) == [ev |-> <<>>, st |-> FIND, pc |-> pc]
Resync(st, pc) == [ev |-> <<>>, st |-> FIND, pc |-> 8]

IdleMut(st, pc) == [ev |-> <<Ann(2, "IDLE", <<>>)>>, st |-> st, pc |-> pc]
Idle(st, pc) == [ev |-> <<Ann(2, "IDLE", <<>>)>>, st |-> FIND, pc |-> pc]

OversizeMut(st, pc) == [ev |-> <<Ann(2, "UNDEFINED SIZE", <<>>)>>, st |-> st, pc |-> pc]
Oversize(st, pc) == [ev |-> <<Ann(2, "UNDEFINED SIZE", <<>>)>>, st |-> FIND, pc |-> pc]

WithAddr(kind, adr, cmd, pc) ==
    [ev |-> <<Ann(2, kind, <<>>), Ann(3, "ADR", <<adr>>)>> \o cmd.ev,
     st |-> cmd.st, pc |-> pc]

HandleTelegram(d, st, pc) ==
    LET n == Len(d) IN
    IF n = 2 THEN
        IF d[1] = 255 /\ d[2] = 0
        THEN Idle(st, pc)
        ELSE Keep(st, pc)
    ELSE IF n = 3 THEN
        IF Xor3(d) = d[3] THEN
            IF BitAnd(d[1], 128) = 0 THEN
                WithAddr("LOCO", BitAnd(d[1], 127), SingleCommand(d[2], st), pc)
            ELSE IF BitAnd(d[1], 192) = 128 /\ BitAnd(d[2], 128) = 128 THEN
                [ev |-> <<Ann(2, "FUNC", <<>>), Ann(3, "ADR", <<AccAddr(d[1], d[2])>>),
                          Ann(4, "ACC", <<BitAnd(d[2], 6) \div 2, BitAnd(d[2], 1),
                                          IF BitAnd(d[2], 8) \div 8 = 1 THEN "on" ELSE "off">>)>>,
                 st |-> st, pc |-> pc]
            ELSE [ev |-> <<Ann(2, "UNKNOWN", <<>>)>>, st |-> st, pc |-> pc]
        ELSE IF d[3] = 255 THEN Resync(st, pc)
        ELSE Keep(st, pc)
    ELSE IF n = 4 THEN
        IF Xor4(d) = d[4] THEN
            IF BitAnd(d[1], 192) = 192 THEN
                WithAddr("LOCO", BitAnd(d[1], 63) * 256 + d[2], SingleCommand(d[3], st), pc)
            ELSE IF BitAnd(d[2], 208) = 192 \/ BitAnd(d[2], 208) = 32 THEN
                WithAddr("LOCO", BitAnd(d[1], 63), TwoCommand(d[2], d[3], st), pc)
            ELSE IF BitAnd(d[1], 192) = 128 /\ BitAnd(d[2], 137) = 1 THEN
                [ev |-> <<Ann(2, "FUNC", <<>>), Ann(3, "ADR", <<AccAddr(d[1], d[2])>>),
                          Ann(4, "IMPFUNC", <<BitAnd(d[2], 6) \div 2, d[3]>>)>>,
                 st |-> st, pc |-> pc]
            ELSE IF BitAnd(d[1], 224) = 32 THEN
                [ev |-> <<Ann(2, "FUNC", <<>>), Ann(3, "ADR", <<BitAnd(d[1], 31)>>),
                          Ann(4, "ANALOG", <<d[2], d[3]>>)>>,
                 st |-> st, pc |-> pc]
            ELSE [ev |-> <<Ann(2, "UNKNOWN", <<>>)>>, st |-> st, pc |-> pc]
        ELSE IF d[4] = 255 THEN Resync(st, pc)
        ELSE Keep(st, pc)
    ELSE IF n = 5 THEN
        IF Xor5(d) = d[5] THEN
            IF BitAnd(d[1], 192) = 192 THEN
                WithAddr("LOCO", BitAnd(d[1], 63) * 256 + d[2], TwoCommand(d[3], d[4], st), pc)
            ELSE [ev |-> <<Ann(2, "UNKNOWN", <<>>)>>, st |-> st, pc |-> pc]
        ELSE IF d[5] = 255 THEN Resync(st, pc)
        ELSE [ev |-> <<Ann(2, "WRONG CHECKSUM", <<Xor5(d), d[5]>>)>>, st |-> FIND, pc |-> pc]
    ELSE IF n > 5 THEN
        Oversize(st, pc)
    ELSE Keep(st, pc)

\* ---------------------------------------------------------------------
\* Input streams: bit cells of the DCC line, one duration per bit cell.
\* ---------------------------------------------------------------------
OneDur == OneMin + 17
ZeroDur == ZeroMin + 11
GlitchDurs == {OneMax, (OneMax + ZeroMin) \div 2}

ByteBits(b) == [i \in 1..8 |-> (b \div 2^(8 - i)) % 2]

RECURSIVE FrameBits(_)
FrameBits(bs) == IF bs = <<>> THEN <<1>>
                 ELSE <<0>> \o ByteBits(Head(bs)) \o FrameBits(Tail(bs))

Ones(n) == [i \in 1..n |-> 1]

ToDur(bits) == [i \in DOMAIN bits |-> IF bits[i] = 1 THEN OneDur ELSE ZeroDur]

Streams == [idle    |-> ToDur(Ones(17) \o FrameBits(<<255, 0, 255>>)),
            loco3   |-> ToDur(Ones(17) \o FrameBits(<<3, 74, 73>>)),
            pre16   |-> ToDur(Ones(16) \o FrameBits(<<3, 74, 73>>)),
            pre15   |-> ToDur(Ones(15) \o FrameBits(<<3, 74, 73>>)),
            resync  |-> ToDur(Ones(17) \o FrameBits(<<195, 5, 63, 255>>) \o Ones(9)
                              \o FrameBits(<<3, 74, 73>>)),
            cksum   |-> ToDur(Ones(17) \o FrameBits(<<195, 5, 63, 16, 0>>)),
            over    |-> ToDur(Ones(17) \o FrameBits(<<1, 2, 4, 8, 15, 16>>)),
            tail4   |-> ToDur(Ones(17) \o FrameBits(<<3, 74, 73, 0>>))]

MaxGlitch == 1

\* Durations the line can present next: the stream's next bit cell, or
\* an invalid cell injected by noise.
\* In the clean phase the line repeats tele forever without noise.
NextDurs == (IF inp = <<>> THEN {} ELSE {Head(inp)})
            \cup (IF glitches < MaxGlitch /\ phase = "noise" THEN GlitchDurs ELSE {})

Consume(d) == /\ dur' = d
              /\ IF inp # <<>> /\ d = Head(inp)
                 THEN /\ inp' = IF phase = "clean" THEN Tail(inp) \o <<Head(inp)>>
                                 ELSE Tail(inp)
                      /\ glitches' = glitches
                 ELSE inp' = inp /\ glitches' = glitches + 1

Emit(e) == /\ ev' = e
           /\ log' = IF phase = "clean" THEN log ELSE log \o e

\* ---------------------------------------------------------------------
\* Decoder.handle_preamble
\* ---------------------------------------------------------------------
PreambleLongEnoughMut(cnt) == cnt > 16
PreambleLongEnough(cnt) == cnt > 15

HandlePreamble(d) ==
    /\ bit' = GetBitRet(d)
    /\ last_bit' = BitClass(d)
    /\ ones' = IF BitClass(d) = 1 THEN ones + 1 ELSE 0
    /\ UNCHANGED sid
    /\ IF GetBitRet(d) = 1 THEN
          /\ preamble_count' = preamble_count + 1
          /\ state' = GetBitState(d, state)
          /\ Emit(<<>>)
          /\ UNCHANGED <<data_bit_count, databyte, data>>
       ELSE IF PreambleLongEnough(preamble_count) THEN
          /\ Emit(<<Ann(2, "PREAMBLE", <<preamble_count>>)>>)
          /\ preamble_count' = 0
          /\ data_bit_count' = 1
          /\ data' = <<>>
          /\ databyte' = 0
          /\ state' = DATA
       ELSE
          /\ preamble_count' = 0
          /\ state' = FIND
          /\ Emit(<<>>)
          /\ UNCHANGED <<data_bit_count, databyte, data>>

\* ---------------------------------------------------------------------
\* Decoder.handle_data (with the handle_telegram call it makes)
\* ---------------------------------------------------------------------
\* if self.data_bit_count > 8
ByteCompleteMut(dbc) == dbc > 9
ByteComplete(dbc) == dbc > 8

HandleData(d) ==
    LET st1 == GetBitState(d, state)
    IN
    /\ bit' = GetBitRet(d)
    /\ last_bit' = BitClass(d)
    /\ ones' = 0
    /\ UNCHANGED sid
    /\ IF bit' = None THEN
          /\ state' = FIND
          /\ Emit(<<>>)
          /\ UNCHANGED <<preamble_count, data_bit_count, databyte, data>>
       ELSE IF data_bit_count = 0 /\ bit' # 0 THEN
          /\ state' = FIND
          /\ Emit(<<>>)
          /\ UNCHANGED <<preamble_count, data_bit_count, databyte, data>>
       ELSE
          LET dbc == data_bit_count + 1
              byte == IF data_bit_count = 0 THEN databyte ELSE 2 * databyte + bit'
          IN
          IF ByteComplete(dbc) THEN
             LET d2 == Append(data, byte)
                 t == HandleTelegram(d2, st1, preamble_count)
             IN /\ data_bit_count' = 0
                /\ data' = d2
                /\ databyte' = 0
                /\ state' = t.st
                /\ preamble_count' = t.pc
                /\ Emit(t.ev)
          ELSE
             /\ data_bit_count' = dbc
             /\ databyte' = byte
             /\ state' = st1
             /\ Emit(<<>>)
             /\ UNCHANGED <<preamble_count, data>>

\* Edge-level variables when the model works on bit cells directly:
\* samplerate configured, no edge-level position.

EdgeRest ==
    /\ rate = SampleRate
    /\ jitter = JitterEdge
    /\ samplenum = 0 /\ first = 0 /\ second = 0 /\ dif1 = 0 /\ dif2 = 0
    /\ bstart = 0 /\ bend = 0 /\ prevend = 0
    /\ edges = 0 /\ nput = 0 /\ nbits = 0

\* ---------------------------------------------------------------------
\* Decoder.decode: initial state and main loop.
\* ---------------------------------------------------------------------
Init ==
    /\ state = FIND
    /\ preamble_count = 0
    /\ data_bit_count = 0
    /\ data = <<0>>
    /\ databyte = 0
    /\ last_bit = None
    /\ bit = 0
    /\ ev = <<>>
    /\ log = <<>>
    /\ sid \in DOMAIN Streams
    /\ inp = Streams[sid]
    /\ glitches = 0
    /\ dur = 0
    /\ ones = 0
    /\ phase = "noise"
    /\ tele = <<>>
    /\ dpc = "bits"
    /\ EdgeRest

PreambleStep == /\ state = FIND
                /\ \E d \in NextDurs : Consume(d) /\ HandlePreamble(d)
                /\ UNCHANGED <<phase, tele, dpc>> /\ UNCHANGED edge_vars

DataStep == /\ state = DATA
            /\ \E d \in NextDurs : Consume(d) /\ HandleData(d)
                /\ UNCHANGED <<phase, tele, dpc>> /\ UNCHANGED edge_vars

Next == PreambleStep \/ DataStep

Spec == Init /\ [][Next]_vars

\* ---------------------------------------------------------------------
\* Decoder.handle_getting_bit on its own, for every bit-cell duration.
\* ---------------------------------------------------------------------
MaxDur == 260

BitInit ==
    /\ state \in {FIND, DATA}
    /\ preamble_count = 0
    /\ data_bit_count = 0
    /\ data = <<0>>
    /\ databyte = 0
    /\ last_bit = None
    /\ bit = 0
    /\ ev = <<>>
    /\ log = <<>>
    /\ sid = "bits"
    /\ inp = <<>>
    /\ glitches = 0
    /\ dur = -1
    /\ ones = 0
    /\ phase = "noise"
    /\ tele = <<>>
    /\ dpc = "bits"
    /\ EdgeRest

GettingBit ==
    \E d \in 0..MaxDur :
        /\ dur' = d
        /\ last_bit' = BitClass(d)
        /\ bit' = GetBitRet(d)
        /\ state' = GetBitState(d, state)
        /\ UNCHANGED <<preamble_count, data_bit_count, databyte, data, ev, log,
                       sid, inp, glitches, ones, phase, tele, dpc>>
        /\ UNCHANGED edge_vars

BitNext == GettingBit

BitSpec == BitInit /\ [][BitNext]_vars

\* ---------------------------------------------------------------------
\* The last payload bit of a byte arriving in DATA: handle_data appends
\* the byte and calls handle_telegram on buffers of length 2..5.
\* ---------------------------------------------------------------------
ParseBytes == {0, 3, 63, 74, 129, 195, 222, 223, 255}

MaxParseLen == 5

RECURSIVE XorAll(_)
XorAll(s) == IF s = <<>> THEN 0 ELSE BitXor(Head(s), XorAll(Tail(s)))

Prefixes == UNION {[1..k -> ParseBytes] : k \in 1..(MaxParseLen - 1)}

ParseInit ==
    /\ state = DATA
    /\ preamble_count = 0
    /\ data_bit_count = 8
    /\ \E p \in Prefixes : \E b \in {XorAll(p), BitXor(XorAll(p), 1), 255, 0} :
          /\ data = p
          /\ databyte = b \div 2
          /\ inp = ToDur(<<b % 2, 1>>)
    /\ last_bit = None
    /\ bit = 0
    /\ ev = <<>>
    /\ log = <<>>
    /\ sid = "parse"
    /\ glitches = MaxGlitch
    /\ dur = 0
    /\ ones = 0
    /\ phase = "noise"
    /\ tele = <<>>
    /\ dpc = "bits"
    /\ EdgeRest

ParseSpec == ParseInit /\ [][Next]_vars

\* ---------------------------------------------------------------------
\* Edge level: Decoder.decode's start and Decoder.handle_bit_read.
\* ---------------------------------------------------------------------
\* self.samplerate left at None (or set to 0): both are falsy
NoRate == 0

\* half-bit intervals between consecutive edges on the data line
Intervals == {30, 58, 100}

MaxEdges == 7

Abs(x) == IF x < 0 THEN -x ELSE x

RateMissingMut(r) == FALSE
\* if not self.samplerate
RateMissing(r) == r = NoRate

\* abs(dif1_samplenum - dif2_samplenum) > self.jitter_edge_samplenum
MisalignedMut(a, b, j) == a - b > j
Misaligned(a, b, j) == Abs(a - b) > j

\* self.wait({0: 'e'}): the next edge arrives iv samples later
WaitEdge == \E iv \in Intervals : samplenum' = samplenum + iv
EdgeCount == edges < MaxEdges /\ edges' = edges + 1

EdgeInit ==
    /\ state = FIND
    /\ preamble_count = 0
    /\ data_bit_count = 0
    /\ data = <<0>>
    /\ databyte = 0
    /\ last_bit = None
    /\ bit = 0
    /\ ev = <<>>
    /\ log = <<>>
    /\ sid = "edges"
    /\ inp = <<>>
    /\ glitches = 0
    /\ dur = 0
    /\ ones = 0
    /\ phase = "noise"
    /\ tele = <<>>
    /\ dpc = "start"
    /\ rate \in {NoRate, SampleRate}
    /\ jitter = 0
    /\ samplenum = 0 /\ first = 0 /\ second = 0 /\ dif1 = 0 /\ dif2 = 0
    /\ bstart = 0 /\ bend = 0 /\ prevend = 0
    /\ edges = 0 /\ nput = 0 /\ nbits = 0

\* decode: raise SamplerateError, or compute the jitter threshold at the
\* current sample rate and wait for the first edge
DecodeStart ==
    /\ dpc = "start"
    /\ IF RateMissing(rate)
       THEN dpc' = "error" /\ UNCHANGED edge_vars
       ELSE /\ jitter' = Threshold(10, rate)
            /\ WaitEdge /\ EdgeCount
            /\ bend' = samplenum'
            /\ dpc' = "read"
            /\ UNCHANGED <<rate, first, second, dif1, dif2, bstart, prevend, nput, nbits>>
    /\ UNCHANGED frame_vars

\* handle_bit_read: first_edge = bit_end; wait for the second edge
BitReadFirst ==
    /\ dpc = "read"
    /\ first' = bend
    /\ WaitEdge /\ EdgeCount
    /\ second' = samplenum'
    /\ dpc' = "read2"
    /\ UNCHANGED <<rate, jitter, dif1, dif2, bstart, bend, prevend, nput, nbits>>
    /\ UNCHANGED frame_vars

\* handle_bit_read: wait for the third edge and measure both halves
BitReadSecond ==
    /\ dpc = "read2"
    /\ WaitEdge /\ EdgeCount
    /\ dif1' = second - first
    /\ dif2' = samplenum' - second
    /\ dpc' = "loop"
    /\ UNCHANGED <<rate, jitter, first, second, bstart, bend, prevend, nput, nbits>>
    /\ UNCHANGED frame_vars

\* handle_bit_read: the jitter loop, and the report of an aligned bit;
\* output_bittime's period / self.samplerate raises when the rate was
\* set to 0 after decode started
BitReadLoop ==
    /\ dpc = "loop"
    /\ IF Misaligned(dif1, dif2, jitter)
       THEN /\ first' = second
            /\ second' = samplenum
            /\ WaitEdge /\ EdgeCount
            /\ dif1' = samplenum - second
            /\ dif2' = samplenum' - samplenum
            /\ UNCHANGED <<rate, jitter, bstart, bend, prevend, nput, nbits, dpc>>
       ELSE IF RateMissing(rate)
       THEN /\ bstart' = first
            /\ bend' = samplenum
            /\ dpc' = "crash"
            /\ UNCHANGED <<rate, jitter, samplenum, first, second, dif1, dif2,
                           prevend, edges, nput, nbits>>
       ELSE /\ bstart' = first
            /\ bend' = samplenum
            /\ prevend' = bend
            /\ nput' = nput + 1
            /\ nbits' = nbits + 1
            /\ dpc' = "read"
            /\ UNCHANGED <<rate, jitter, samplenum, first, second, dif1, dif2, edges>>
    /\ UNCHANGED frame_vars

\* sample rates the host may report through metadata
MetaRates == {NoRate, SampleRate, 2 * SampleRate}

\* metadata(SRD_CONF_SAMPLERATE, value): the host may call it at any time
Metadata ==
    /\ \E r \in MetaRates : rate' = r
    /\ UNCHANGED <<jitter, samplenum, first, second, dif1, dif2, bstart, bend,
                   prevend, edges, nput, nbits, dpc>>
    /\ UNCHANGED frame_vars

EdgeNext == DecodeStart \/ BitReadFirst \/ BitReadSecond \/ BitReadLoop \/ Metadata

EdgeSpec == EdgeInit /\ [][EdgeNext]_vars

\* ---------------------------------------------------------------------
\* Command decoders on every command byte, and the 3-byte accessory
\* telegram on every address byte pair.
\* ---------------------------------------------------------------------
TwoCmdBytes == {0, 32, 63, 222, 223}

CmdInit ==
    /\ state = DATA
    /\ preamble_count = 0
    /\ data_bit_count = 0
    /\ databyte = 0
    /\ last_bit = None
    /\ bit = 0
    /\ ev = <<>>
    /\ log = <<>>
    /\ sid = "cmd"
    /\ inp = <<>>
    /\ glitches = 0
    /\ dur = 0
    /\ ones = 0
    /\ phase = "noise"
    /\ tele = <<>>
    /\ EdgeRest
    /\ \/ dpc = "single" /\ data \in {<<b>> : b \in 0..255}
       \/ dpc = "two" /\ data \in {<<c1, c2>> : c1 \in TwoCmdBytes, c2 \in 0..255}
       \/ dpc = "acc" /\ data \in {<<b0, b1>> : b0 \in 128..191, b1 \in 128..255}

\* handle_single_command_byte(databyte)
CmdSingle ==
    /\ dpc = "single"
    /\ LET r == SingleCommand(data[1], state) IN ev' = r.ev /\ state' = r.st
    /\ dpc' = "single_done"
    /\ UNCHANGED <<preamble_count, data_bit_count, databyte, data, last_bit, bit, log,
                   sid, inp, glitches, dur, ones, phase, tele>>
    /\ UNCHANGED edge_vars

\* handle_two_command_byte(cmdbyte1, cmdbyte2)
CmdTwo ==
    /\ dpc = "two"
    /\ LET r == TwoCommand(data[1], data[2], state) IN ev' = r.ev /\ state' = r.st
    /\ dpc' = "two_done"
    /\ UNCHANGED <<preamble_count, data_bit_count, databyte, data, last_bit, bit, log,
                   sid, inp, glitches, dur, ones, phase, tele>>
    /\ UNCHANGED edge_vars

\* handle_telegram on the checksum-valid buffer [b0, b1, b0 ^ b1]
CmdAcc ==
    /\ dpc = "acc"
    /\ LET d == <<data[1], data[2], BitXor(data[1], data[2])>>
           r == HandleTelegram(d, state, preamble_count)
       IN /\ ev' = r.ev /\ state' = r.st /\ preamble_count' = r.pc
          /\ data' = d
    /\ dpc' = "acc_done"
    /\ UNCHANGED <<data_bit_count, databyte, last_bit, bit, log,
                   sid, inp, glitches, dur, ones, phase, tele>>
    /\ UNCHANGED edge_vars

CmdNext == CmdSingle \/ CmdTwo \/ CmdAcc

CmdSpec == CmdInit /\ [][CmdNext]_vars

\* ---------------------------------------------------------------------
\* One well-formed telegram of 3..5 bytes after a 17-one preamble.
\* ---------------------------------------------------------------------
TeleA == {3, 129, 195}
TeleB == {5, 63, 74, 222}
TeleC == {0, 60, 74, 255}

WithChecksum(s) == s \o <<XorAll(s)>>

Telegrams == {WithChecksum(<<a, b>>) : a \in TeleA, b \in TeleB}
             \cup {WithChecksum(<<a, b, c>>) : a \in TeleA, b \in TeleB, c \in TeleC}
             \cup {WithChecksum(<<195, b, c, e>>) : b \in TeleB, c \in TeleC, e \in TeleC}

TeleInit ==
    /\ state = FIND
    /\ preamble_count = 0
    /\ data_bit_count = 0
    /\ data = <<0>>
    /\ databyte = 0
    /\ last_bit = None
    /\ bit = 0
    /\ ev = <<>>
    /\ log = <<>>
    /\ sid = "tele"
    /\ tele \in Telegrams
    /\ inp = ToDur(Ones(17) \o FrameBits(tele))
    /\ glitches = MaxGlitch
    /\ dur = 0
    /\ ones = 0
    /\ phase = "noise"
    /\ dpc = "bits"
    /\ EdgeRest

TeleSpec == TeleInit /\ [][Next]_vars

\* ---------------------------------------------------------------------
\* Noise, then a clean line repeating a sequence of one or two telegrams
\* (each with a 17-one preamble, its bytes and its end bit) forever.
\* ---------------------------------------------------------------------
CleanTelegrams == {<<255, 0, 255>>, <<3, 74, 73>>,
                   WithChecksum(<<195, 5, 63, 133>>), WithChecksum(<<195, 5, 63, 255>>)}

\* the telegram sequences a clean line repeats: each telegram alone, and
\* mixed pairs
CleanLines == {<<t>> : t \in CleanTelegrams}
              \cup {<<<<255, 0, 255>>, <<3, 74, 73>>>>,
                    <<<<3, 74, 73>>, WithChecksum(<<195, 5, 63, 133>>)>>}

RECURSIVE LineBits(_)
LineBits(l) == IF l = <<>> THEN <<>>
               ELSE Ones(17) \o FrameBits(Head(l)) \o LineBits(Tail(l))

CleanInp == [l \in CleanLines |-> ToDur(LineBits(l))]

\* From any point of the noisy prefix the line turns clean; the decoder's
\* state is kept, the annotation history is restarted.
Switch ==
    /\ phase = "noise"
    /\ phase' = "clean"
    /\ tele' \in CleanLines
    /\ inp' = CleanInp[tele']
    /\ sid' = "clean"
    /\ log' = <<>>
    /\ UNCHANGED <<state, preamble_count, data_bit_count, databyte, data, last_bit, bit,
                   ev, glitches, dur, ones, dpc>>
    /\ UNCHANGED edge_vars

LiveNext == Next \/ Switch

\* decode's while-True loop handles every bit the line delivers
LiveSpec == Init /\ [][LiveNext]_vars /\ WF_vars(PreambleStep \/ DataStep)

\* the options' default values in microseconds
DefaultUs == {10, 100, 130, 190, 250}

MaxUs == 60

ThrInit ==
    /\ state = FIND
    /\ preamble_count = 0
    /\ data_bit_count = 0
    /\ databyte = 0
    /\ last_bit = None
    /\ bit = 0
    /\ ev = <<>>
    /\ log = <<>>
    /\ sid = "thresholds"
    /\ inp = <<>>
    /\ glitches = 0
    /\ dur = 0
    /\ ones = 0
    /\ phase = "noise"
    /\ tele = <<>>
    /\ EdgeRest
    /\ dpc = "thr"
    /\ data \in {<<us, SampleRate>> : us \in (1..MaxUs) \cup DefaultUs}

\* decode: one threshold computed from data = <<microseconds, samplerate>>
ComputeThreshold ==
    /\ dpc = "thr"
    /\ dur' = Threshold(data[1], data[2])
    /\ dpc' = "thr_done"
    /\ UNCHANGED <<state, preamble_count, data_bit_count, databyte, data, last_bit, bit,
                   ev, log, sid, inp, glitches, ones, phase, tele>>
    /\ UNCHANGED edge_vars

ThrNext == ComputeThreshold

ThrSpec == ThrInit /\ [][ThrNext]_vars

\* ---------------------------------------------------------------------
\* Properties
\* ---------------------------------------------------------------------
Kinds(e) == {e[i].kind : i \in DOMAIN e}

\* A step of handle_data that appended a byte to the buffer
Appended == data_bit_count = 8 /\ data_bit_count' = 0 /\ state = DATA

\* C1: a duration in [zero_min, zero_max) yields bit 0, one in
\* [one_min, one_max) yields bit 1, every other duration yields Invalid
\* (the None that handle_data tests for, with state FIND_PREAMBLE); both
\* windows are half-open. Read on the value handle_getting_bit returns.
C1_BitClassification ==
    dur >= 0 =>
    /\ ((ZeroMin <= dur /\ dur < ZeroMax) => bit = 0)
    /\ ((OneMin <= dur /\ dur < OneMax) => bit = 1)
    /\ (~(ZeroMin <= dur /\ dur < ZeroMax) /\ ~(OneMin <= dur /\ dur < OneMax))
          => (bit = None /\ state = FIND)

\* C2 (as stated): from count 0, 16 ones then a 0 stay in FIND_PREAMBLE
\* with count 0; 17 ones then a 0 emit a Preamble and move to DATA.
C2_Original ==
    [][(state = FIND /\ ones = preamble_count /\ last_bit' = 0) =>
         /\ preamble_count = 16 => (state' = FIND /\ preamble_count' = 0)
         /\ preamble_count = 17 => (state' = DATA /\ "PREAMBLE" \in Kinds(ev'))]_vars

\* C2 (amended): from count 0, a run of 15 ones then a 0 stays in
\* FIND_PREAMBLE with count 0; runs of 16 or 17 ones then a 0 emit a
\* Preamble and move to DATA (count > 15 means at least 16 ones).
C2_PreambleAcceptance ==
    [][(state = FIND /\ ones = preamble_count /\ last_bit' = 0) =>
         /\ preamble_count = 15 => (state' = FIND /\ preamble_count' = 0
                                    /\ "PREAMBLE" \notin Kinds(ev'))
         /\ preamble_count \in {16, 17} => (state' = DATA
                                    /\ "PREAMBLE" \in Kinds(ev'))]_vars

C2_Witness == sid = "pre16" /\ state = DATA /\ ev = <<Ann(2, "PREAMBLE", <<16>>)>>

\* C3: in FIND_PREAMBLE an Invalid bit resets the count to 0, leaves the
\* state at FIND_PREAMBLE and never emits a Preamble, for every count.
C3_InvalidInPreamble ==
    [][(state = FIND /\ last_bit' = None) =>
         (state' = FIND /\ preamble_count' = 0 /\ "PREAMBLE" \notin Kinds(ev'))]_vars

\* C4: in DATA an Invalid bit moves to FIND_PREAMBLE at once; it is not
\* shifted into the byte, no byte is appended and no telegram is parsed.
C4_InvalidInData ==
    [][(state = DATA /\ last_bit' = None) =>
         /\ state' = FIND
         /\ databyte' = databyte
         /\ data_bit_count' = data_bit_count
         /\ data' = data
         /\ ev' = <<>>]_vars

Accepted(e) == Kinds(e) \cap {"LOCO", "FUNC", "UNKNOWN"} # {}

\* C5: for buffers of length 3, 4 or 5 handed to the parser, a telegram
\* (LOCO / FUNC / UNKNOWN) is produced iff the XOR of all bytes but the
\* last equals the last byte.
C5_ChecksumGating ==
    [][(Appended /\ Len(data') \in 3..5) =>
         (Accepted(ev') <=> XorAll(SubSeq(data', 1, Len(data') - 1)) = data'[Len(data')])]_vars

C5_Witness == sid = "parse" /\ Len(data) = 3 /\ data_bit_count = 0 /\ Accepted(ev)

ChecksumFails(s) == XorAll(SubSeq(s, 1, Len(s) - 1)) # s[Len(s)]

\* C6: at length 3, 4 or 5, a failed checksum whose last byte is 0xFF sets
\* the preamble count to 8, moves to FIND_PREAMBLE and reports no error.
C6_Resync ==
    [][(Appended /\ Len(data') \in 3..5 /\ ChecksumFails(data') /\ data'[Len(data')] = 255) =>
         (preamble_count' = 8 /\ state' = FIND /\ "WRONG CHECKSUM" \notin Kinds(ev'))]_vars

C6_Witness == sid = "parse" /\ Len(data) = 5 /\ data_bit_count = 0
              /\ data[5] = 255 /\ state = FIND /\ preamble_count = 8

\* C7: at length 5 a failed checksum with a last byte other than 0xFF
\* reports WRONG CHECKSUM with the computed XOR and the received byte and
\* moves to FIND_PREAMBLE; at lengths 3 and 4 it reports nothing and stays
\* in DATA.
C7_ChecksumError ==
    [][(Appended /\ Len(data') \in 3..5 /\ ChecksumFails(data') /\ data'[Len(data')] # 255) =>
         IF Len(data') = 5
         THEN /\ ev' = <<Ann(2, "WRONG CHECKSUM",
                             <<XorAll(SubSeq(data', 1, 4)), data'[5]>>)>>
              /\ state' = FIND
         ELSE ev' = <<>> /\ state' = DATA]_vars

C7_Witness == sid = "parse" /\ Len(data) = 4 /\ data_bit_count = 0 /\ state = DATA
              /\ ChecksumFails(data) /\ data[4] # 255

\* C8: when the buffer grows past 5 bytes the step reports UNDEFINED SIZE
\* and moves to FIND_PREAMBLE.
C8_Oversize ==
    [][(data_bit_count' = 0 /\ data' # data /\ Len(data') > 5) =>
         ("UNDEFINED SIZE" \in Kinds(ev') /\ state' = FIND)]_vars

C8_Witness == Len(data) = 6 /\ state = FIND /\ ev = <<Ann(2, "UNDEFINED SIZE", <<>>)>>

\* The noise-free stream s has been decoded completely.
Done(s) == sid = s /\ inp = <<>> /\ glitches = 0

CountKind(e, k) == Cardinality({i \in DOMAIN e : e[i].kind = k})

\* C9: a valid preamble followed by 0 11111111 0 00000000 0 11111111 1
\* yields exactly one IDLE telegram and no other telegram annotation.
C9_IdleRoundTrip ==
    Done("idle") => (CountKind(log, "IDLE") = 1 /\ Kinds(log) \subseteq {"PREAMBLE", "IDLE"})

C9_Witness == Done("idle") /\ CountKind(log, "IDLE") = 1

\* C10 (as stated): [0x03, 0x4A, 0x49] after a valid preamble decodes to
\* a short-address loco, 28-step speed, address 3, speed 10, direction 1.
C10_Original ==
    Done("loco3") => (log = <<Ann(2, "PREAMBLE", <<17>>), Ann(2, "LOCO", <<>>),
                              Ann(3, "ADR", <<3>>), Ann(4, "SPEED", <<10, 1>>)>>)

\* C10 (amended): the same telegram decodes to address 3, speed 10,
\* direction 0 (bit 5 of 0x4A is clear).
C10_Loco3 ==
    Done("loco3") => (log = <<Ann(2, "PREAMBLE", <<17>>), Ann(2, "LOCO", <<>>),
                              Ann(3, "ADR", <<3>>), Ann(4, "SPEED", <<10, 0>>)>>)

C10_Witness == Done("loco3") /\ state = FIND /\ Len(log) = 4

\* C11: without a sample rate decode fails before waiting for any edge
\* and before putting any annotation.
C11_MissingSampleRate ==
    [][(dpc = "start" /\ rate = NoRate /\ dpc' /= "start") =>
           (dpc' = "error" /\ edges' = 0 /\ nput' = 0)]_vars

C11_Witness == rate = NoRate /\ dpc = "error"

\* C18: every reported bit has half-bit intervals within the jitter
\* threshold, a duration equal to their sum, and starts at or after the
\* end of the previously reported bit.
C18_BitAlignment ==
    (dpc = "read" /\ nbits >= 1) =>
        /\ Abs(dif1 - dif2) <= jitter
        /\ bend - bstart = dif1 + dif2
        /\ bstart >= prevend

C18_Witness == dpc = "read" /\ nbits >= 2 /\ bstart > prevend

\* C12: the data bit count always lies in 0..8; a bit that raises it to 9
\* appends the byte and resets the count to 0 in the same step.
C12_BitCountBound ==
    [][/\ data_bit_count \in 0..8
       /\ data_bit_count' \in 0..8
       /\ (state = DATA /\ data_bit_count = 8) =>
             (data_bit_count' = 0 /\ Len(data') = Len(data) + 1)]_vars

C12_Witness == state = DATA /\ data_bit_count = 0 /\ Len(data) = 2

\* C13: a step that accepts a telegram of length 3..5 leaves the machine
\* in FIND_PREAMBLE, so later bytes are never appended to its buffer.
C13_ResetAfterAccept ==
    (Accepted(ev) /\ data_bit_count = 0 /\ Len(data) \in 3..5) => state = FIND

\* C14: for a 128-step command (cmdbyte1 & 0xE0 = 0x20, & 0x1F = 0x1F)
\* speed is (cmdbyte2 & 0x7F) - 1 and direction (cmdbyte2 >> 7) & 1.
C14_Speed128 ==
    (dpc = "two_done" /\ BitAnd(data[1], 224) = 32 /\ BitAnd(data[1], 31) = 31) =>
        ev = <<Ann(4, "SPEED", <<BitAnd(data[2], 127) - 1, (data[2] \div 128) % 2>>)>>

IsSet(b, k) == (b \div 2^k) % 2 = 1

Funcs(e) == {e[1].v[i] : i \in DOMAIN e[1].v}

\* C15: each function of groups 1..3 and F13..F28 is reported on iff its
\* own bit is set: FL bit 4, F1..F4 / F5..F8 / F9..F12 bits 0..3,
\* F13..F20 / F21..F28 bits 0..7.
C15_FunctionGating ==
    /\ (dpc = "single_done" /\ BitAnd(data[1], 224) = 128) =>
          /\ ("FL" \in Funcs(ev) <=> IsSet(data[1], 4))
          /\ \A k \in 0..3 : <<"F1", "F2", "F3", "F4">>[k + 1] \in Funcs(ev) <=> IsSet(data[1], k)
    /\ (dpc = "single_done" /\ BitAnd(data[1], 240) = 176) =>
          \A k \in 0..3 : <<"F5", "F6", "F7", "F8">>[k + 1] \in Funcs(ev) <=> IsSet(data[1], k)
    /\ (dpc = "single_done" /\ BitAnd(data[1], 240) = 160) =>
          \A k \in 0..3 : <<"F9", "F10", "F11", "F12">>[k + 1] \in Funcs(ev) <=> IsSet(data[1], k)
    /\ (dpc = "two_done" /\ data[1] = 222) =>
          \A k \in 0..7 : <<"F13", "F14", "F15", "F16", "F17", "F18", "F19", "F20">>[k + 1]
                             \in Funcs(ev) <=> IsSet(data[2], k)
    /\ (dpc = "two_done" /\ data[1] = 223) =>
          \A k \in 0..7 : <<"F21", "F22", "F23", "F24", "F25", "F26", "F27", "F28">>[k + 1]
                             \in Funcs(ev) <=> IsSet(data[2], k)

\* C17: the basic accessory address is
\* (bytes[0] & 0x3F) | (((~bytes[1]) & 0x70) << 2).
C17_AccessoryAddress ==
    dpc = "acc_done" =>
        ev[2].v[1] = BitOr(BitAnd(data[1], 63), BitAnd(255 - data[2], 112) * 4)

\* C16: a checksum-valid 4-byte telegram with a short address
\* (bytes[0] & 0x80 = 0) and bytes[1] in {0x3F, 0xDE, 0xDF} is decoded by
\* the two-byte command decoder as a speed or function group.
C16_TwoByteDispatch ==
    [][(Appended /\ Len(data') = 4 /\ XorAll(SubSeq(data', 1, 3)) = data'[4]
        /\ BitAnd(data'[1], 128) = 0 /\ data'[2] \in {63, 222, 223}) =>
         /\ Kinds(ev') \cap {"SPEED", "FUNCS"} # {}
         /\ Kinds(ev') \cap {"UNKNOWN", "ANALOG", "ACC", "IMPFUNC"} = {}]_vars

Decodes(e) == {i \in DOMAIN e : e[i].kind \in {"IDLE", "LOCO", "FUNC", "UNKNOWN"}}

TeleDone == sid = "tele" /\ inp = <<>>

\* C20 (as stated): a well-formed telegram of n bytes (3..5) after a
\* valid preamble yields exactly one telegram decode, at length n.
C20_Original ==
    TeleDone => (Cardinality(Decodes(log)) = 1 /\ Len(data) = Len(tele))

\* No proper prefix of t is decoded or triggers a resync: not [0xFF, 0x00]
\* at length 2, and at lengths 3..n-1 a failing checksum not ending in 0xFF.
QuietPrefixes(t) ==
    /\ ~(t[1] = 255 /\ t[2] = 0)
    /\ \A k \in 3..(Len(t) - 1) :
          XorAll(SubSeq(t, 1, k - 1)) # t[k] /\ t[k] # 255

\* C20 (amended): such a telegram whose proper prefixes are quiet yields
\* exactly one telegram decode, at its full length n.
C20_SingleDecode ==
    (TeleDone /\ QuietPrefixes(tele)) =>
        (Cardinality(Decodes(log)) = 1 /\ Len(data) = Len(tele))

C20_Witness == TeleDone /\ Len(tele) = 5 /\ QuietPrefixes(tele)
               /\ Cardinality(Decodes(log)) = 1

\* A telegram decode whose buffer is a prefix (of length >= 2) of one of
\* the telegrams the clean line repeats.
CorrectDecode == /\ Decodes(ev) # {}
                 /\ Len(data) >= 2
                 /\ \E i \in DOMAIN tele :
                       Len(data) <= Len(tele[i]) /\ data = SubSeq(tele[i], 1, Len(data))

\* The idle telegram, or a telegram whose proper prefixes are quiet.
Healing(t) == t = <<255, 0, 255>> \/ QuietPrefixes(t)

\* C19 (as stated): once the line repeats well-formed telegrams, a
\* correct decode of one of them is eventually emitted, whatever the state.
C19_Original == (phase = "clean") ~> CorrectDecode

\* C19 (amended): the same holds when every repeated telegram is the
\* idle telegram or has quiet proper prefixes (see QuietPrefixes).
C19_SelfHealing ==
    (phase = "clean" /\ \A i \in DOMAIN tele : Healing(tele[i])) ~> CorrectDecode

C19_Witness == /\ phase = "clean" /\ Len(tele) = 2
               /\ \A i \in DOMAIN tele : Healing(tele[i])
               /\ CorrectDecode /\ Len(data) = 5

\* C21: each threshold is round(microseconds * 1e-6 * sample_rate), e.g.
\* 130 us at 1 MHz gives 130 samples.
C21_ThresholdRounding ==
    dpc = "thr_done" => dur = (data[1] * data[2] + 500000) \div 1000000

====
